---- MODULE Spec2Model ----
(***************************************************************************)
(* Benkyo: a Streamlit page holding a dynamic list of (text, slider) rows  *)
(* in session state, persisted to one JSON day file per calendar date,     *)
(* with a 7-day chart read back from the day files.                        *)
(*                                                                         *)
(* One run of main() is one action.  The input of a run is what the        *)
(* browser sends with the rerun: the widget values (text / slider edits,   *)
(* the picked date) and the button that was pressed.                       *)
(*                                                                         *)
(* A text is a sequence of one-character strings.  A day file is modelled  *)
(* by the JSON value it holds: a sequence of [text, slider] records.       *)
(* Calendar dates are day numbers; timedelta(days=n) is integer addition.  *)
(***************************************************************************)
EXTENDS Integers, Sequences, FiniteSets, TLC

\* ---- bounds of the exploration ----
MaxRows == 2        \* "Add" is not pressed when this many rows are shown
MaxNextId == MaxRows    \* no new row id is drawn once next_row_id reached this

\* ---- input samples ----
Dates == {2, 8}                         \* dates the user may pick / today
TextChoices == {<<>>, <<" ", "a">>}     \* texts the user may type

\* ---- program constants ----
None == 0           \* active_date = None; also "selected_date not in state"
MinSlider == 0
MaxSlider == 100
TargetPerRow == 100
WeekBack == 6
WeekLen == 7

\* a slider bound off by one
SliderRangeOneTooWide == MinSlider..(MaxSlider + 1)

\* st.slider(min_value=0, max_value=100): the values the widget can send
SliderRange == MinSlider..MaxSlider

\* slider positions the user tries; the widget sends those within its range
SliderPositions == {MinSlider - 1, MinSlider, MaxSlider, MaxSlider + 1}
SliderChoices == SliderPositions \cap SliderRange

NoFile == [exists |-> FALSE, data |-> <<>>]   \* the day file does not exist
EmptyFn == [x \in {} |-> 0]

Range(s) == {s[i] : i \in 1..Len(s)}
Drop(f, k) == [x \in (DOMAIN f) \ {k} |-> f[x]]
Put(f, k, v) == [x \in (DOMAIN f) \cup {k} |-> IF x = k THEN v ELSE f[x]]
Get(f, k, default) == IF k \in DOMAIN f THEN f[k] ELSE default

VARIABLES
    row_ids,        \* st.session_state.row_ids
    next_row_id,    \* st.session_state.next_row_id
    selected_date,  \* st.session_state.selected_date (None: not yet in state)
    active_date,    \* st.session_state.active_date
    text,           \* st.session_state["text_<id>"], by id; DOMAIN = keys present
    slider,         \* st.session_state["slider_<id>"], by id
    disk,           \* DATA_DIR: file name -> content of the file, or NoFile
    shown,          \* what the progress bar of the last run displayed
    records,        \* the chart records of the last run
    delete_pressed, \* the ids whose delete button was pressed for the last run
    issued,         \* history: ids drawn by _add_row since the last _clear_rows
    restored,       \* history: the rows the last run had to bring back (<<>>: the
                    \* last run was no date change to a date left before)
    left            \* history: date -> the rows it had when it was last left, by
                    \* a date change or a reload of the page (<<>>: never, or
                    \* loaded since)

vars == <<row_ids, next_row_id, selected_date, active_date, text, slider,
          disk, shown, records, delete_pressed,
          issued, restored, left>>

\* ---- session state helpers (src/main.py 18-74) ----

\* _add_row without "next_row_id += 1"
AddRowNoIncrement(S, t, v) ==
    LET row_id == S.next_row_id IN
    [S EXCEPT !.row_ids = Append(S.row_ids, row_id),
              !.text = Put(S.text, row_id, t),
              !.slider = Put(S.slider, row_id, v),
              !.issued = Append(S.issued, row_id)]

AddRow(S, t, v) ==
    LET row_id == S.next_row_id IN
    [S EXCEPT !.next_row_id = S.next_row_id + 1,
              !.row_ids = Append(S.row_ids, row_id),
              !.text = Put(S.text, row_id, t),
              !.slider = Put(S.slider, row_id, v),
              !.issued = Append(S.issued, row_id)]

AsInt(value) == IF value \in Int THEN value ELSE 0

EnsureState(S, today) ==
    LET S1 == IF S.selected_date = None
              THEN [S EXCEPT !.selected_date = today]
              ELSE S
    IN  IF S1.row_ids = <<>> THEN AddRow(S1, <<>>, 0) ELSE S1

\* _clear_rows without "row_ids = []"
ClearRowsKeepList(S) ==
    [S EXCEPT !.text = [x \in (DOMAIN S.text) \ Range(S.row_ids) |-> S.text[x]],
              !.slider = [x \in (DOMAIN S.slider) \ Range(S.row_ids) |-> S.slider[x]],
              !.next_row_id = 0,
              !.issued = <<>>]

ClearRows(S) ==
    [S EXCEPT !.text = [x \in (DOMAIN S.text) \ Range(S.row_ids) |-> S.text[x]],
              !.slider = [x \in (DOMAIN S.slider) \ Range(S.row_ids) |-> S.slider[x]],
              !.row_ids = <<>>,
              !.next_row_id = 0,
              !.issued = <<>>]

RECURSIVE AddRows(_, _)
AddRows(S, entries) ==
    IF entries = <<>> THEN S
    ELSE AddRows(AddRow(S, Head(entries).text, AsInt(Head(entries).slider)),
                 Tail(entries))

ResetRows(S, entries) ==
    LET es == IF entries = <<>> THEN <<[text |-> <<>>, slider |-> 0]>> ELSE entries
    IN  AddRows(ClearRows(S), es)

\* _current_entries reading text_<index> / slider_<index> instead of <row_id>
CurrentEntriesByIndex(S) ==
    [i \in 1..Len(S.row_ids) |->
        [text |-> Get(S.text, i - 1, <<>>),
         slider |-> AsInt(Get(S.slider, i - 1, 0))]]

CurrentEntries(S) ==
    [i \in 1..Len(S.row_ids) |->
        [text |-> Get(S.text, S.row_ids[i], <<>>),
         slider |-> AsInt(Get(S.slider, S.row_ids[i], 0))]]

\* ---- day files (src/main.py 77-118) ----

\* one file name for every date
DataFileSameForAll(day) ==
    <<CHOOSE d \in Dates : \A e \in Dates : d <= e, ".json">>

\* DATA_DIR / f"{day.isoformat()}.json"
DataFileForDate(day) == <<day, ".json">>

ReadEntriesFromDisk(D, day) ==
    LET file_path == DataFileForDate(day)
    IN  IF file_path \in DOMAIN D /\ D[file_path].exists
        THEN D[file_path].data
        ELSE <<>>

LoadEntriesForDate(S, D, day) ==
    LET file_path == DataFileForDate(day)
        entries == IF file_path \in DOMAIN D /\ D[file_path].exists
                   THEN D[file_path].data
                   ELSE <<>>
    IN  ResetRows(S, entries)

SaveEntriesForDate(D, day, entries) ==
    LET payload == [i \in 1..Len(entries) |->
                      [text |-> entries[i].text,
                       slider |-> AsInt(entries[i].slider)]]
    IN  [D EXCEPT ![DataFileForDate(day)] = [exists |-> TRUE, data |-> payload]]

\* ---- the chart tab (src/main.py 211-251) ----

Strip(t) ==
    LET nonBlank == {i \in 1..Len(t) : t[i] # " "}
        first == CHOOSE i \in nonBlank : \A j \in nonBlank : i <= j
        last == CHOOSE i \in nonBlank : \A j \in nonBlank : j <= i
    IN  IF nonBlank = {} THEN <<>> ELSE SubSeq(t, first, last)

Digits == <<"1", "2", "3", "4", "5", "6", "7", "8", "9">>
\* f"スライダー{index + 1}": the fixed prefix is the one character "S"
DefaultLabel(index) == <<"S", Digits[index + 1]>>

\* the window starting one day too early
WeekDaysOffByOne(selected) ==
    [k \in 1..WeekLen |-> (selected - WeekLen) + (k - 1)]

WeekDays(selected) == [k \in 1..WeekLen |-> (selected - WeekBack) + (k - 1)]

DailyEntries(D, week_days) ==
    [k \in 1..Len(week_days) |-> ReadEntriesFromDisk(D, week_days[k])]

Max(a, b) == IF a >= b THEN a ELSE b

RECURSIVE MaxLength(_, _)
MaxLength(daily, k) ==
    IF k = 0 THEN 0 ELSE Max(MaxLength(daily, k - 1), Len(daily[k]))

\* the inner loop of lines 226-229 over one day's entries, from entry i on
RECURSIVE CacheDay(_, _, _)
CacheDay(cache, day_entries, i) ==
    IF i > Len(day_entries) THEN cache
    ELSE LET text_label == Strip(day_entries[i].text)
             index == i - 1
         IN  CacheDay(IF text_label # <<>> /\ index \notin DOMAIN cache
                      THEN Put(cache, index, text_label)
                      ELSE cache,
                      day_entries, i + 1)

\* the outer loop of lines 224-229 over the days k..WeekLen
RECURSIVE LabelCache(_, _, _)
LabelCache(cache, daily, k) ==
    IF k > Len(daily) THEN cache
    ELSE LabelCache(CacheDay(cache, daily[k], 1), daily, k + 1)

ChartRecords(D, selected) ==
    LET week_days == WeekDays(selected)
        daily == DailyEntries(D, week_days)
        max_length == MaxLength(daily, Len(daily))
        label_cache == LabelCache(EmptyFn, daily, 1)
        Rec(index, k) ==
            [date |-> week_days[k],
             label |-> Get(label_cache, index, DefaultLabel(index)),
             value |-> IF index < Len(daily[k])
                       THEN AsInt(daily[k][index + 1].slider)
                       ELSE 0]
    IN  IF max_length = 0 THEN <<>>
        ELSE [n \in 1..(max_length * WeekLen) |->
                Rec((n - 1) \div WeekLen, ((n - 1) % WeekLen) + 1)]

\* ---- main (src/main.py 121-209) ----

\* list.remove(x): drops the first occurrence of x
RECURSIVE RemoveFirst(_, _)
RemoveFirst(seq, x) ==
    IF seq = <<>> THEN <<>>
    ELSE IF Head(seq) = x THEN Tail(seq)
    ELSE <<Head(seq)>> \o RemoveFirst(Tail(seq), x)

\* the loop over rows_to_remove without the two session_state.pop calls
RECURSIVE RemoveRowsKeepKeys(_, _)
RemoveRowsKeepKeys(S, rows_to_remove) ==
    IF rows_to_remove = <<>> THEN S
    ELSE LET row_id == Head(rows_to_remove)
             S1 == IF row_id \in Range(S.row_ids)
                   THEN [S EXCEPT !.row_ids = RemoveFirst(S.row_ids, row_id)]
                   ELSE S
         IN  RemoveRowsKeepKeys(S1, Tail(rows_to_remove))

\* lines 194-198: the loop over rows_to_remove
RECURSIVE RemoveRows(_, _)
RemoveRows(S, rows_to_remove) ==
    IF rows_to_remove = <<>> THEN S
    ELSE LET row_id == Head(rows_to_remove)
             S1 == IF row_id \in Range(S.row_ids)
                   THEN [S EXCEPT !.row_ids = RemoveFirst(S.row_ids, row_id),
                                  !.text = Drop(S.text, row_id),
                                  !.slider = Drop(S.slider, row_id)]
                   ELSE S
         IN  RemoveRows(S1, Tail(rows_to_remove))

RECURSIVE SumSliders(_, _)
SumSliders(S, ids) ==
    IF ids = <<>> THEN 0
    ELSE AsInt(Get(S.slider, Head(ids), 0)) + SumSliders(S, Tail(ids))

\* lines 147-152: the figures of the progress bar
Progress(S) ==
    LET slider_count == Len(S.row_ids)
    IN  [target_total |-> IF slider_count # 0 THEN slider_count * TargetPerRow ELSE 0,
         total_slider |-> SumSliders(S, S.row_ids)]

\* date change without saving the rows of the date that is left
SwitchDateNoSave(S, D, picked) ==
    LET previous_date == S.active_date
    IN  IF previous_date = None \/ previous_date # picked
        THEN [st |-> [LoadEntriesForDate(S, D, picked) EXCEPT !.active_date = picked],
              disk |-> D]
        ELSE [st |-> S, disk |-> D]

\* lines 129-136: load on the first run, save and load on a date change
SwitchDate(S, D, picked) ==
    LET previous_date == S.active_date
    IN  IF previous_date = None
        THEN [st |-> [LoadEntriesForDate(S, D, picked) EXCEPT !.active_date = picked],
              disk |-> D]
        ELSE IF previous_date # picked
        THEN LET D1 == SaveEntriesForDate(D, previous_date, CurrentEntries(S))
             IN  [st |-> [LoadEntriesForDate(S, D1, picked)
                            EXCEPT !.active_date = picked],
                  disk |-> D1]
        ELSE [st |-> S, disk |-> D]

\* One run of main().  S: session state with the widget values of this rerun
\* applied; today: date.today(); pick: the date picked in the date input
\* (None: untouched); add: "Add" was pressed; pressed: ids whose delete
\* button was pressed.
Main(S, D, today, pick, add, pressed) ==
    LET S1 == EnsureState(S, today)
        picked == IF pick = None THEN S1.selected_date ELSE pick
        S2 == [S1 EXCEPT !.selected_date = picked]
        switched == SwitchDate(S2, D, picked)
        S3 == switched.st
        D1 == switched.disk
        S4 == IF add THEN AddRow(S3, <<>>, 0) ELSE S3
        progress == Progress(S4)
        rows_to_remove == SelectSeq(S4.row_ids, LAMBDA row_id : row_id \in pressed)
        S5 == RemoveRows(S4, rows_to_remove)
        S6 == IF rows_to_remove # <<>> /\ S5.row_ids = <<>>
              THEN AddRow(S5, <<>>, 0)
              ELSE S5
        entries == CurrentEntries(S6)
        D2 == SaveEntriesForDate(D1, picked, entries)
    IN  [st |-> S6, disk |-> D2, shown |-> progress,
         records |-> ChartRecords(D2, picked)]

\* ---- the state machine ----

Session ==
    [row_ids |-> row_ids, next_row_id |-> next_row_id,
     selected_date |-> selected_date, active_date |-> active_date,
     text |-> text, slider |-> slider, issued |-> issued]

\* the rows of session state S as (text, slider) pairs, in row_ids order
Rows(S) ==
    [i \in 1..Len(S.row_ids) |->
        [text |-> S.text[S.row_ids[i]], slider |-> S.slider[S.row_ids[i]]]]

Init ==
    /\ row_ids = <<>>
    /\ next_row_id = 0
    /\ selected_date = None
    /\ active_date = None
    /\ text = EmptyFn
    /\ slider = EmptyFn
    /\ disk = [f \in {<<d, ".json">> : d \in Dates} |-> NoFile]
    /\ shown = [target_total |-> 0, total_slider |-> 0]
    /\ records = <<>>
    /\ delete_pressed = {}
    /\ issued = <<>>
    /\ restored = <<>>
    /\ left = [d \in Dates |-> <<>>]

\* the run of main() on session state S with the given inputs
Run(S, today, pick, add, pressed) ==
    \E R \in {Main(S, disk, today, pick, add, pressed)} :
    LET away == S.active_date # None /\ pick # None /\ pick # S.active_date
    IN  /\ R.st.next_row_id <= MaxNextId
        /\ row_ids' = R.st.row_ids
        /\ next_row_id' = R.st.next_row_id
        /\ selected_date' = R.st.selected_date
        /\ active_date' = R.st.active_date
        /\ text' = R.st.text
        /\ slider' = R.st.slider
        /\ issued' = R.st.issued
        /\ disk' = R.disk
        /\ shown' = R.shown
        /\ records' = R.records
        /\ delete_pressed' = pressed
        /\ restored' = IF away THEN left[pick] ELSE <<>>
        /\ left' = IF away
                   THEN [left EXCEPT ![S.active_date] = Rows(S), ![pick] = <<>>]
                   ELSE [left EXCEPT ![R.st.active_date] = <<>>]

\* the first run of a session: nothing is in session state yet
FirstRun(today) ==
    /\ selected_date = None
    /\ Run(Session, today, None, FALSE, {})

\* a rerun with no change (e.g. a switch of tab)
Rerun ==
    /\ selected_date # None
    /\ Run(Session, selected_date, None, FALSE, {})

PressAdd ==
    /\ selected_date # None
    /\ Len(row_ids) < MaxRows
    /\ Run(Session, selected_date, None, TRUE, {})

PressDelete(row_id) ==
    /\ selected_date # None
    /\ row_id \in Range(row_ids)
    /\ Run(Session, selected_date, None, FALSE, {row_id})

EditText(row_id, t) ==
    /\ selected_date # None
    /\ row_id \in Range(row_ids)
    /\ text[row_id] # t
    /\ Run([Session EXCEPT !.text[row_id] = t], selected_date, None, FALSE, {})

MoveSlider(row_id, v) ==
    /\ selected_date # None
    /\ row_id \in Range(row_ids)
    /\ slider[row_id] # v
    /\ Run([Session EXCEPT !.slider[row_id] = v], selected_date, None, FALSE, {})

\* the date is changed; a text edit not yet sent may arrive with the same rerun
PickDate(day) ==
    /\ selected_date # None
    /\ day # selected_date
    /\ \/ Run(Session, selected_date, day, FALSE, {})
       \/ \E row_id \in Range(row_ids), t \in TextChoices :
             /\ text[row_id] # t
             /\ Run([Session EXCEPT !.text[row_id] = t], selected_date, day, FALSE, {})

\* the browser tab is reloaded: a new session, same DATA_DIR
NewSession ==
    /\ selected_date # None
    /\ row_ids' = <<>>
    /\ next_row_id' = 0
    /\ selected_date' = None
    /\ active_date' = None
    /\ text' = EmptyFn
    /\ slider' = EmptyFn
    /\ issued' = <<>>
    /\ shown' = [target_total |-> 0, total_slider |-> 0]
    /\ records' = <<>>
    /\ delete_pressed' = {}
    /\ restored' = <<>>
    /\ left' = [left EXCEPT ![active_date] = Rows(Session)]
    /\ UNCHANGED disk

Next ==
    \/ \E today \in Dates : FirstRun(today)
    \/ Rerun
    \/ PressAdd
    \/ \E row_id \in 0..MaxNextId : PressDelete(row_id)
    \/ \E row_id \in 0..MaxNextId, t \in TextChoices : EditText(row_id, t)
    \/ \E row_id \in 0..MaxNextId, v \in SliderChoices : MoveSlider(row_id, v)
    \/ \E day \in Dates : PickDate(day)
    \/ NewSession

Spec == Init /\ [][Next]_vars

\* ---- the claims ----

Ran == selected_date # None        \* at least one run of main() in this session
NowRows ==
    [i \in 1..Len(row_ids) |->
        [text |-> text[row_ids[i]], slider |-> slider[row_ids[i]]]]
FileOf(d) == disk[<<d, ".json">>]
StrictlyIncreasing(seq) ==
    \A a, b \in 1..Len(seq) : a < b => seq[a] < seq[b]
RECURSIVE SumOf(_)
SumOf(entries) ==
    IF entries = <<>> THEN 0 ELSE Head(entries).slider + SumOf(Tail(entries))

\* C1 as stated: every id drawn by _add_row in a run is greater than every id
\* drawn earlier in the session, also when the run is a date change that
\* reloaded the rows (the ids drawn earlier include those of `issued`).
C1_IdsIncreaseOverSession ==
    [][(Ran /\ selected_date' # None) =>
        LET reloaded == active_date' # active_date
            drawn == IF reloaded
                     THEN Range(issued')
                     ELSE {issued'[k] : k \in (Len(issued) + 1)..Len(issued')}
        IN  \A i \in drawn : \A j \in Range(issued) : i > j]_vars

\* C1 amended: between two reloads of the rows (_clear_rows) the ids drawn by
\* _add_row are strictly increasing; a reload starts again from 0.
C1_IdsIncreaseBetweenReloads ==
    /\ StrictlyIncreasing(issued)
    /\ (Ran => issued[1] = 0)

\* rows were reloaded from a day file and a further row was added afterwards
C1_Witness ==
    /\ Ran
    /\ Len(issued) = 2
    /\ Len(row_ids) = 2
    /\ \E d \in Dates : d # active_date /\ left[d] # <<>>

\* C2: at the end of every run the day file of the selected date holds
\* exactly the (text, slider) pairs of the rows of session state, in row_ids
\* order, one entry per row.
C2_FileHoldsRows ==
    Ran => /\ FileOf(selected_date).exists
           /\ FileOf(selected_date).data = NowRows

\* after a delete that left a gap in the ids, with an edited row
C2_Witness ==
    /\ Ran
    /\ row_ids = <<1>>
    /\ text[1] # <<>>
    /\ slider[1] = 100
    /\ FileOf(selected_date).data = <<[text |-> text[1], slider |-> 100]>>

\* C3: when a date change goes back to a date that was left before, the rows
\* shown are the rows the date had when it was left: same texts and slider
\* values in the same order.
C3_RoundTrip ==
    restored # <<>> => NowRows = restored

\* back on a date whose two edited rows were brought back, while the date
\* visited in between holds other rows
C3_Witness ==
    /\ Len(restored) = 2
    /\ restored[1].text # <<>>
    /\ restored[2].slider = 100
    /\ \E d \in Dates : d # active_date /\ left[d] # <<>> /\ left[d] # restored

\* C4: the slider value of every row of session state, and of every entry of
\* every day file, is an integer in 0..100.
C4_SliderInRange ==
    /\ \A id \in Range(row_ids) : slider[id] \in 0..100
    /\ \A d \in Dates : \A i \in 1..Len(FileOf(d).data) :
          FileOf(d).data[i].slider \in 0..100

\* rows with both ends of the range, loaded back from their day file
C4_Witness ==
    /\ Len(restored) = 2
    /\ restored[1].slider = 100
    /\ restored[2].slider = 0
    /\ slider[row_ids[1]] = 100

\* C5: the total and the target the progress bar shows in a run are the sum
\* of the sliders, and 100 times the count, of the rows the same run writes
\* to the day file of the selected date.
C5_ShownSumIsSavedSum ==
    Ran => /\ shown.total_slider = SumOf(FileOf(selected_date).data)
           /\ shown.target_total = 100 * Len(FileOf(selected_date).data)

\* C6: the chart has, for every row position below the largest row count of
\* the seven day files of selected_date-6 .. selected_date and for every date
\* of that window in ascending order, exactly one record, whose value is the
\* slider at that position of the date's file, or 0; the values of the
\* selected date are those of the rows of session state.
C6_ChartWindow ==
    Ran =>
      LET FileLen(d) == IF d \in Dates /\ FileOf(d).exists
                        THEN Len(FileOf(d).data) ELSE 0
          window == (selected_date - 6)..selected_date
          longest == CHOOSE m \in {FileLen(d) : d \in window} :
                        \A d \in window : FileLen(d) <= m
      IN  /\ Len(records) = longest * 7
          /\ \A i \in 0..(longest - 1) : \A k \in 0..6 :
                LET r == records[i * 7 + k + 1]
                    d == selected_date - 6 + k
                IN  /\ r.date = d
                    /\ r.value = IF i < FileLen(d)
                                 THEN FileOf(d).data[i + 1].slider ELSE 0
                    /\ d = selected_date =>
                          r.value = IF i < Len(row_ids)
                                    THEN slider[row_ids[i + 1]] ELSE 0

\* the oldest day of the window has two rows, the selected date one
C6_Witness ==
    /\ selected_date = 8
    /\ Len(row_ids) = 1
    /\ slider[row_ids[1]] = 100
    /\ FileOf(2).exists
    /\ Len(FileOf(2).data) = 2
    /\ FileOf(2).data[2].slider = 100
    /\ Len(records) = 14

\* C7: the records of two different row positions never carry the same
\* series label.
C7_LabelsDistinctPerPosition ==
    \A n, m \in 1..Len(records) :
        ((n - 1) \div 7) # ((m - 1) \div 7) => records[n].label # records[m].label

C9_IdsUnique ==
    /\ \A a, b \in 1..Len(row_ids) : a # b => row_ids[a] # row_ids[b]
    /\ \A a \in 1..Len(row_ids) : row_ids[a] < next_row_id

\* two rows reloaded from a day file after an earlier row list was cleared
C9_Witness ==
    /\ Len(restored) = 2
    /\ row_ids = <<0, 1>>
    /\ next_row_id = 2

====
